---- MODULE Spec2Model ----
(***************************************************************************)
(* Ticket store of streamlit_app.py: the session's dataframe               *)
(* (st.session_state.df), the seeding block, the add-ticket form handler   *)
(* and the data-editor write-back block.                                   *)
(*                                                                         *)
(* Dates are day offsets from datetime.date(2023, 6, 1).  An ID is the     *)
(* string "TICKET-<n>"; the common prefix is left out and the ID is kept   *)
(* as the sequence of decimal digits of <n>, so that Python's string       *)
(* comparison (max over the ID column) and int()/f-string conversions are  *)
(* modelled by what they do.                                               *)
(***************************************************************************)
EXTENDS Integers, Sequences, FiniteSets

VARIABLES
    df,         \* st.session_state.df of the session: the rows, first row first
    df2,        \* st.session_state.df of a second session
    form,       \* what the last run read from the form, if Submit was pressed
    msg,        \* what the last run showed: st.error, st.success or neither
    edited_df,  \* what st.data_editor returned in the last run
    edits       \* history: the number of runs in which the editor had edits

vars == <<df, df2, form, msg, edited_df, edits>>

(***************************************************************************)
(* Bounds of the model.                                                    *)
(***************************************************************************)
\* rows generated by the seeding block (100 in the source)
SeedCount == 2
\* ID number of the first seeded row (1100 in the source); it is taken just
\* below a change of the number of digits, which the source reaches after
\* 8899 appends, so that MaxAppends appends cross it
SeedTop == 99
\* rows the frame grows to in one behaviour
MaxRows == 4
\* write-backs of the data editor in one behaviour
MaxEdits == 1

\* random.randint(0, 182), random.randint(0, 90), random.randint(91, 182):
\* the windows of the three date columns, shortened; the Start Date window
\* ends the day before the End Date window begins, as in the source
SeedSubmittedDays == {0}
SeedStartDays == {0, 1}
\* variant: the End Date window begins inside the Start Date window
SeedEndDays_overlapping == {1, 2}
SeedEndDays == {2}

\* values the user gives the form's widgets
FormTexts == {"Printer offline"}
FormPriorities == {"Medium"}
FormDays == {1, 2}
\* datetime.datetime.now(), as a day offset
TodayDays == {4}

\* values the user types into cells of the data editor
EditTexts == {"edited"}
EditDays == {0, 3}
EditNumbers == {5}

\* np.random.seed(42)
NpSeedValue == 42

(***************************************************************************)
(* Candidate lists of the seeding block.                                   *)
(***************************************************************************)
issue_descriptions ==
    << "Network connectivity issues in the office",
       "Software application crashing on startup",
       "Printer not responding to print commands",
       "Email server downtime",
       "Data backup failure",
       "Login authentication problems",
       "Website performance degradation",
       "Security vulnerability identified",
       "Hardware malfunction in the server room",
       "Employee unable to access shared files",
       "Database connection failure",
       "Mobile application not syncing data",
       "VoIP phone system issues",
       "VPN connection problems for remote employees",
       "System updates causing compatibility issues",
       "File server running out of storage space",
       "Intrusion detection system alerts",
       "Inventory management system errors",
       "Customer data not loading in CRM",
       "Collaboration tool not sending notifications" >>

project_names ==
    << "Alpha Project", "Beta Initiative", "Gamma System", "Delta Upgrade",
       "Epsilon Migration", "Zeta Implementation", "Eta Integration",
       "Theta Deployment", "Iota Modernization", "Kappa Optimization" >>

project_descriptions ==
    << "Website redesign and development",
       "Mobile app development for iOS and Android",
       "Cloud infrastructure migration",
       "CRM system implementation",
       "Data analytics platform setup",
       "Security enhancement project",
       "Network infrastructure upgrade",
       "Database optimization initiative",
       "API gateway implementation",
       "DevOps pipeline automation" >>

StatusOptions == <<"Open", "In Progress", "Closed">>

PriorityOptions == <<"High", "Medium", "Low">>

(***************************************************************************)
(* Strings and numbers of the ID column.                                   *)
(***************************************************************************)
RECURSIVE Format(_)
\* f"{n}": the decimal digits of n, most significant first
Format(n) == IF n < 10 THEN <<n>> ELSE Append(Format(n \div 10), n % 10)

RECURSIVE ParseInt(_)
\* int(s) of a string of decimal digits
ParseInt(s) ==
    IF Len(s) = 0 THEN 0
    ELSE 10 * ParseInt(SubSeq(s, 1, Len(s) - 1)) + s[Len(s)]

RECURSIVE StrLess(_, _)
\* Python's a < b on strings: character by character, a proper prefix is less
StrLess(a, b) ==
    IF Len(b) = 0 THEN FALSE
    ELSE IF Len(a) = 0 THEN TRUE
    ELSE IF a[1] # b[1] THEN a[1] < b[1]
    ELSE StrLess(Tail(a), Tail(b))

\* max(st.session_state.df.ID): the builtin max over the strings of the column
MaxID(d) ==
    LET ids == {d[i].ID : i \in 1..Len(d)}
    IN  CHOOSE m \in ids : \A x \in ids : ~StrLess(m, x)

\* int(max(st.session_state.df.ID).split("-")[1])
recent_ticket_number(d) == ParseInt(MaxID(d))

(***************************************************************************)
(* The seeded generator of numpy.  Its outputs are a function of the seed  *)
(* and of the number of draws made so far.                                 *)
(***************************************************************************)
NpStep(s) == (5 * s + 3) % 16

RECURSIVE NpState(_)
\* the generator's state after k draws since np.random.seed(NpSeedValue)
NpState(k) == IF k = 0 THEN NpSeedValue % 16 ELSE NpStep(NpState(k - 1))

\* element i of the k-th call np.random.choice(list, size=SeedCount)
NpChoice(list, k, i) ==
    list[(NpState((k - 1) * SeedCount + i) % Len(list)) + 1]

(***************************************************************************)
(* Seeding block.  The three date columns come from random.randint of the  *)
(* random module, which the block does not seed: draws is any outcome.     *)
(***************************************************************************)
SeedDraws ==
    [1..SeedCount -> [submitted : SeedSubmittedDays,
                      start : SeedStartDays,
                      end : SeedEndDays]]

SeedRow(i, draws) ==
    [ID |-> Format(SeedTop - (i - 1)),
     ProjectName |-> NpChoice(project_names, 1, i),
     ProjectDescription |-> NpChoice(project_descriptions, 2, i),
     Issue |-> NpChoice(issue_descriptions, 3, i),
     Status |-> NpChoice(StatusOptions, 4, i),
     Priority |-> NpChoice(PriorityOptions, 5, i),
     DateSubmitted |-> <<"date", draws[i].submitted>>,
     StartDate |-> draws[i].start,
     EndDate |-> draws[i].end,
     DaysOfCompletion |-> draws[i].end - draws[i].start]

Seed(draws) == [i \in 1..SeedCount |-> SeedRow(i, draws)]

\* "df" not in st.session_state
NoDf == <<>>

\* submitted is False: the run reads none of the form's values
NoForm == [submitted |-> FALSE]

Init ==
    /\ \E draws \in SeedDraws : df = Seed(draws)
    /\ df2 = NoDf
    /\ form = NoForm
    /\ msg = "none"
    /\ edited_df = df
    /\ edits = 0

(***************************************************************************)
(* The add-ticket form.                                                    *)
(***************************************************************************)
\* variant: the dates are not validated
DatesAccepted_unchecked(start_date, end_date) == TRUE

\* the else branch of "if end_date < start_date"
DatesAccepted(start_date, end_date) == ~(end_date < start_date)

\* (end_date - start_date).days, (df['End Date'] - df['Start Date']).dt.days
days_between(start_date, end_date) == end_date - start_date

\* datetime.datetime.now().strftime("%Y-%m-%d"): a string, not a date
today_string(now) == <<"str", now>>

df_new(d, f, now) ==
    [ID |-> Format(recent_ticket_number(d) + 1),
     ProjectName |-> f.project_name,
     ProjectDescription |-> f.project_description,
     Issue |-> f.issue,
     Status |-> "Open",
     Priority |-> f.priority,
     DateSubmitted |-> today_string(now),
     StartDate |-> f.start_date,
     EndDate |-> f.end_date,
     DaysOfCompletion |-> days_between(f.start_date, f.end_date)]

\* variant: pd.concat([st.session_state.df, df_new], axis=0)
Concat_new_last(new, d) == d \o <<new>>

\* pd.concat([df_new, st.session_state.df], axis=0)
Concat(new, d) == <<new>> \o d

FormInputs ==
    [submitted : {TRUE},
     project_name : FormTexts,
     project_description : FormTexts,
     issue : FormTexts,
     priority : FormPriorities,
     start_date : FormDays,
     end_date : FormDays]

\* A run of the script after the Submit button: the "if submitted" block.
\* The editor is then shown the stored frame and returns it as it is, so
\* the write-back block finds the two equal and does nothing.
AddTicket(f, now) ==
    /\ df # NoDf
    /\ DatesAccepted(f.start_date, f.end_date)
          => Len(df) < MaxRows
    /\ form' = f
    /\ IF DatesAccepted(f.start_date, f.end_date)
       THEN /\ msg' = "success"
            /\ df' = Concat(df_new(df, f, now), df)
       ELSE /\ msg' = "error"
            /\ df' = df
    /\ edited_df' = df'
    /\ UNCHANGED <<df2, edits>>

(***************************************************************************)
(* The data editor and the write-back block.                               *)
(***************************************************************************)
\* every column but the disabled ID
EditableColumns ==
    {"ProjectName", "ProjectDescription", "Issue", "Status", "Priority",
     "DateSubmitted", "StartDate", "EndDate", "DaysOfCompletion"}

DateColumns == {"StartDate", "EndDate"}

\* what a cell of the column can be set to
CellValues(col) ==
    CASE col \in {"ProjectName", "ProjectDescription", "Issue"} -> EditTexts
      [] col = "Status" -> {StatusOptions[i] : i \in 1..Len(StatusOptions)}
      [] col = "Priority" -> {PriorityOptions[i] : i \in 1..Len(PriorityOptions)}
      [] col = "DateSubmitted" -> {<<"date", x>> : x \in EditDays}
      [] col \in DateColumns -> EditDays
      [] col = "DaysOfCompletion" -> EditNumbers

SetCell(d, r, col, v) == [d EXCEPT ![r] = [@ EXCEPT ![col] = v]]

\* the frames that differ from d in one cell
OneCellEdited(d) ==
    { SetCell(d, r, col[1], col[2]) :
        r \in 1..Len(d),
        col \in UNION {{c} \X CellValues(c) : c \in EditableColumns} } \ {d}

\* the frames that differ from d in a date cell of one row and in the Days of
\* Completion cell of the same row or of the row below (cells of a block
\* change together when the user pastes into the table)
DateAndDaysEdited(d) ==
    UNION { { SetCell(SetCell(d, r, c, v), r2, "DaysOfCompletion", n) :
                r2 \in {r, r + 1} \cap (1..Len(d)), n \in EditNumbers }
            : <<r, c, v>> \in { x \in (1..Len(d)) \X DateColumns \X EditDays :
                                   d[x[1]][x[2]] # x[3] } }

\* variant: num_rows="dynamic", the user can also delete a row
data_editor_dynamic(d) ==
    {d} \cup OneCellEdited(d) \cup DateAndDaysEdited(d)
        \cup { SubSeq(d, 1, r - 1) \o SubSeq(d, r + 1, Len(d)) : r \in 1..Len(d) }

\* st.data_editor(st.session_state.df, ..., disabled=["ID"]): the frames it can
\* return.  The number of rows is fixed (num_rows is left at its default) and
\* the ID column cannot be edited.
data_editor(d) == {d} \cup OneCellEdited(d) \cup DateAndDaysEdited(d)

\* variant: (edited_df['Start Date'] - edited_df['End Date']).dt.days
Recompute_swapped(e) ==
    [i \in 1..Len(e) |->
        [e[i] EXCEPT !.DaysOfCompletion = days_between(e[i].EndDate, e[i].StartDate)]]

\* edited_df['Days of Completion'] =
\*     (edited_df['End Date'] - edited_df['Start Date']).dt.days
Recompute(e) ==
    [i \in 1..Len(e) |->
        [e[i] EXCEPT !.DaysOfCompletion = days_between(e[i].StartDate, e[i].EndDate)]]

\* variant: the edited frame is stored as the editor returned it
WriteBack_as_edited(e, d) == e

\* variant: only the rows whose dates were edited are recomputed
WriteBack_changed_rows(e, d) ==
    IF e # d
    THEN [i \in 1..Len(e) |->
            IF e[i].StartDate # d[i].StartDate \/ e[i].EndDate # d[i].EndDate
            THEN Recompute(e)[i]
            ELSE e[i]]
    ELSE d

\* the value the write-back block leaves in st.session_state.df
WriteBack(e, d) == IF e # d THEN Recompute(e) ELSE d

\* A run of the script after the user edited cells of the table: the form is
\* not submitted, the editor returns a frame e with the user's edits.
ApplyBulkEdit ==
    /\ df # NoDf
    /\ edits < MaxEdits
    /\ \E e \in data_editor(df) :
        /\ e # df
        /\ edited_df' = e
        /\ df' = WriteBack(e, df)
    /\ form' = NoForm
    /\ msg' = "none"
    /\ edits' = edits + 1
    /\ UNCHANGED df2

Next ==
    \/ \E f \in FormInputs, now \in TodayDays : AddTicket(f, now)
    \/ ApplyBulkEdit

Spec == Init /\ [][Next]_vars

(***************************************************************************)
(* Two sessions, each running the seeding block of its first run; the      *)
(* first session goes on to add tickets.                                   *)
(***************************************************************************)
InitSessions ==
    /\ df = NoDf
    /\ df2 = NoDf
    /\ form = NoForm
    /\ msg = "none"
    /\ edited_df = NoDf
    /\ edits = 0

\* the first run of the session: "if 'df' not in st.session_state"
SeedSession ==
    /\ df = NoDf
    /\ \E draws \in SeedDraws : df' = Seed(draws)
    /\ edited_df' = df'
    /\ UNCHANGED <<df2, form, msg, edits>>

\* the first run of the second session
SeedSession2 ==
    /\ df2 = NoDf
    /\ \E draws \in SeedDraws : df2' = Seed(draws)
    /\ UNCHANGED <<df, form, msg, edited_df, edits>>

NextSessions ==
    \/ SeedSession
    \/ SeedSession2
    \/ \E f \in FormInputs, now \in TodayDays : AddTicket(f, now)

SpecSessions == InitSessions /\ [][NextSessions]_vars

(***************************************************************************)
(* Vocabulary of the properties.                                           *)
(***************************************************************************)
Rows(d) == 1..Len(d)

\* the number after "TICKET-"
Suffix(t) == ParseInt(t.ID)

RECURSIVE MaxOf(_)
MaxOf(S) ==
    IF S = {} THEN 0
    ELSE LET x == CHOOSE y \in S : TRUE
             m == MaxOf(S \ {x})
         IN  IF x > m THEN x ELSE m

MaxSuffix(d) == MaxOf({Suffix(d[i]) : i \in Rows(d)})

IdSet(d) == {d[i].ID : i \in Rows(d)}

\* this step is a run in which the form was submitted with accepted dates
AppendStep ==
    /\ form'.submitted
    /\ form'.end_date >= form'.start_date

\* this step is a run in which the form was submitted with rejected dates
RejectStep ==
    /\ form'.submitted
    /\ form'.end_date < form'.start_date

\* this step is a run in which the editor returned an edited frame
EditStep == edits' = edits + 1

\* the frame e differs from d in a Start Date or End Date cell
DatesDiffer(e, d) ==
    \E i \in Rows(d) :
        e[i].StartDate # d[i].StartDate \/ e[i].EndDate # d[i].EndDate

\* the frame e differs from d, and in non-date cells only
OnlyOtherCellsDiffer(e, d) ==
    /\ e # d
    /\ \A i \in Rows(d) :
        /\ e[i].ID = d[i].ID
        /\ e[i].StartDate = d[i].StartDate
        /\ e[i].EndDate = d[i].EndDate
        /\ e[i].DaysOfCompletion = d[i].DaysOfCompletion

(***************************************************************************)
(* Properties.                                                             *)
(***************************************************************************)
\* C1: in every reachable state every ticket of the store has
\* days_of_completion = end_date - start_date, also after an edit that
\* changed a date or the Days of Completion cell itself.
C1_DaysMatchDates ==
    \A i \in Rows(df) : df[i].DaysOfCompletion = df[i].EndDate - df[i].StartDate

\* C1 witness: the editor returned a frame in which a Start Date was set to a
\* day only the editor gives and a Days of Completion cell was overwritten
\* in the row below, and the write-back replaced the typed value.
C1_Witness ==
    /\ edits > 0
    /\ \E i \in Rows(df) :
        /\ i < Len(df)
        /\ edited_df[i].StartDate = 3
        /\ df[i].StartDate = 3
        /\ edited_df[i + 1].DaysOfCompletion = 5
        /\ df[i + 1].DaysOfCompletion # 5

\* C2: a submission with end_date < start_date shows the error and leaves
\* the store as it was (same rows in the same order), so that the number the
\* next accepted ticket gets is the one it would have got before.
C2_RejectKeepsStore ==
    [][RejectStep =>
          /\ msg' = "error"
          /\ df' = df
          /\ Len(df') = Len(df)
          /\ Format(recent_ticket_number(df') + 1)
                = Format(recent_ticket_number(df) + 1)]_vars

\* C2 witness: a rejected submission that came after an accepted one.
C2_Witness ==
    /\ form.submitted
    /\ form.end_date < form.start_date
    /\ msg = "error"
    /\ Len(df) > SeedCount

\* C3 (as claimed): an accepted submission adds exactly one row, and the new
\* ticket's number is the largest number in the store before it, plus one.
C3_NextNumberIsMaxPlusOne ==
    [][AppendStep =>
          /\ Len(df') = Len(df) + 1
          /\ Suffix(df'[1]) = MaxSuffix(df) + 1]_vars

\* C4 (as claimed): no two tickets share an id, and every ticket added by
\* the form has a number greater than that of every ticket that was in the
\* store before it (the rows below it).
C4_IdsUniqueAndIncreasing ==
    /\ \A i, j \in Rows(df) : i # j => df[i].ID # df[j].ID
    /\ \A i, j \in Rows(df) : i < j => Suffix(df[i]) > Suffix(df[j])

\* C5: a write-back of a frame that differs from the store in non-date cells
\* only leaves every ticket's days_of_completion as it was.
C5_OtherEditsKeepDays ==
    [][(EditStep /\ OnlyOtherCellsDiffer(edited_df', df)) =>
          /\ Len(df') = Len(df)
          /\ \A i \in Rows(df) :
                df'[i].DaysOfCompletion = df[i].DaysOfCompletion]_vars

\* C5 witness: the one frame the editor returned so far had a text, status or
\* priority cell changed and no date cell, on a ticket that takes some days.
C5_Witness ==
    /\ edits = 1
    /\ form = NoForm
    /\ \E i \in Rows(df) :
        /\ edited_df[i].ProjectName \in EditTexts \/ edited_df[i].Status = "Closed"
        /\ edited_df[i].DaysOfCompletion > 0
        /\ edited_df[i].DaysOfCompletion = df[i].DaysOfCompletion
    /\ \A i \in Rows(df) :
        /\ edited_df[i].StartDate \in SeedStartDays \cup FormDays
        /\ edited_df[i].EndDate \in SeedEndDays \cup FormDays
        /\ edited_df[i].DaysOfCompletion = edited_df[i].EndDate - edited_df[i].StartDate

\* C6: a write-back of a frame in which a Start Date or End Date differs
\* from the store sets days_of_completion = end_date - start_date on every
\* row of the frame and stores the frame, all other cells as the editor
\* returned them.
C6_DateEditRecomputesAllRows ==
    [][(EditStep /\ DatesDiffer(edited_df', df)) =>
          /\ Len(df') = Len(edited_df')
          /\ \A i \in Rows(edited_df') :
                /\ df'[i].DaysOfCompletion
                      = edited_df'[i].EndDate - edited_df'[i].StartDate
                /\ df'[i] = [edited_df'[i] EXCEPT
                               !.DaysOfCompletion = df'[i].DaysOfCompletion]]_vars

\* C6 witness: the frame had an End Date set to a day only the editor gives
\* in one row and a typed Days of Completion in another row, which the
\* write-back recomputed as well.
C6_Witness ==
    /\ edits > 0
    /\ \E i \in Rows(df) :
        /\ i < Len(df)
        /\ edited_df[i].EndDate = 0
        /\ df[i].DaysOfCompletion = 0 - df[i].StartDate
        /\ edited_df[i + 1].DaysOfCompletion = 5
        /\ df[i + 1].DaysOfCompletion = df[i + 1].EndDate - df[i + 1].StartDate
        /\ df[i + 1].DaysOfCompletion # 5

\* the rows the seeding block gave the first session: appends go in front
SeededRow(i) == df[Len(df) - SeedCount + i]

\* C7 (as claimed): two runs of the seeding block give the same value in
\* every field of every row, Date Submitted excepted.
C7_SeedingRepeats ==
    (df # NoDf /\ df2 # NoDf) =>
        \A i \in 1..SeedCount :
            [SeededRow(i) EXCEPT !.DateSubmitted = <<"date", 0>>]
                = [df2[i] EXCEPT !.DateSubmitted = <<"date", 0>>]

\* C8: no run deletes a ticket: the store never gets shorter and every id in
\* it stays in it.
C8_NoTicketDeleted ==
    [][/\ Len(df') >= Len(df)
       /\ IdSet(df) \subseteq IdSet(df')]_vars

\* C8 witness: tickets were added and the table was edited.
C8_Witness ==
    /\ edits > 0
    /\ Len(df) = MaxRows
    /\ edited_df # df

\* C9: after an accepted submission the new ticket is the first row, and
\* the rows after it are the store as it was, in the same order.
C9_NewTicketFirst ==
    [][AppendStep =>
          /\ df'[1].ProjectName = form'.project_name
          /\ df'[1].ProjectDescription = form'.project_description
          /\ df'[1].Issue = form'.issue
          /\ df'[1].Priority = form'.priority
          /\ df'[1].Status = "Open"
          /\ df'[1].StartDate = form'.start_date
          /\ df'[1].EndDate = form'.end_date
          /\ Tail(df') = df]_vars

\* C9 witness: a ticket was added in front of an edited store.
C9_Witness ==
    /\ msg = "success"
    /\ edits > 0
    /\ Len(df) > SeedCount
    /\ df[1].StartDate = form.start_date
    /\ \E i \in Rows(df) : i > 1 /\ df[i].ProjectName \in EditTexts

\* every ticket ends no earlier than it starts
DatesOrdered(d) ==
    \A i \in Rows(d) : d[i].EndDate >= d[i].StartDate /\ d[i].DaysOfCompletion >= 0

\* C10: as long as the editor has written nothing back, every ticket has
\* end_date >= start_date and days_of_completion >= 0, and the seeded ones
\* end_date > start_date; and only a write-back of the editor takes the
\* store from all tickets ordered to some ticket with end_date < start_date.
C10_OnlyEditsDisorderDates ==
    /\ [](edits = 0 =>
            /\ DatesOrdered(df)
            /\ \A i \in 1..SeedCount : SeededRow(i).EndDate > SeededRow(i).StartDate)
    /\ [][(DatesOrdered(df) /\ ~DatesOrdered(df')) => EditStep]_vars

\* C10 witness: seeding and two accepted submissions, one of a ticket that
\* ends the day it starts, and no edit.
C10_Witness ==
    /\ edits = 0
    /\ Len(df) = SeedCount + 2
    /\ \E i \in Rows(df) : df[i].DaysOfCompletion = 0 /\ df[i].EndDate = df[i].StartDate

\* a write-back of the editor has left a ticket that ends before it starts,
\* with a negative days_of_completion
EditedIntoDisorder ==
    /\ edits > 0
    /\ \E i \in Rows(df) :
        df[i].EndDate < df[i].StartDate /\ df[i].DaysOfCompletion < 0

====
